---- MODULE Spec2Model ----
(***************************************************************************)
(* State-machine model of src/shootiggame2.py (division shooting game):    *)
(* QuestionGenerator, Game and the main loop's event handling.             *)
(*                                                                         *)
(* Python's None is the empty tuple <<>>; the beam list [bx, by] is the    *)
(* tuple <<bx, by>>; current_question is <<dividend, divisor, quotient>>.  *)
(* Every call of the random module consumes one raw draw u (a natural      *)
(* number) that the action takes as an input.                              *)
(***************************************************************************)
EXTENDS Integers, Sequences, FiniteSets, TLC

VARIABLES
    state,            \* Game.state: "menu", "playing", "level_clear"
    difficulty,       \* Game.difficulty
    qgen,             \* Game.qgen: [difficulty, divisors, max_dividend]
    correct_count,    \* Game.correct_count
    total_attempts,   \* Game.total_attempts
    current_question, \* Game.current_question
    meteors,          \* Game.meteors: sequence of [x, y, text, speed]
    ship_x,           \* Game.ship_x
    beam,             \* Game.beam
    particles,        \* Game.particles: sequence of bursts [age, life, n]
    timer_ms,         \* interval of the pygame timer for USEREVENT+1 (0 = disarmed)
    timer_events,     \* USEREVENT+1 events posted and not yet handled
    last,             \* observer: what the latest update call, handled click or
                      \* next_question return did
    gpc,              \* position inside make_new_question (step-wise generator run)
    g_divisor,        \* next_question: local divisor
    g_tries,          \* next_question: iterations of the retry loop done
    g_answers         \* make_new_question: local answers

vars == <<state, difficulty, qgen, correct_count, total_attempts,
          current_question, meteors, ship_x, beam, particles,
          timer_ms, timer_events, last, gpc, g_divisor, g_tries, g_answers>>

gameVars == <<state, difficulty, correct_count, total_attempts,
              ship_x, beam, particles, timer_ms, timer_events>>

genVars == <<gpc, g_divisor, g_tries, g_answers>>

----------------------------------------------------------------------------
(* Program constants *)

WIDTH == 900
HEIGHT == 650
TARGET_CORRECT == 20
FALL_SPEED_MIN == 60
FALL_SPEED_MAX == 140
METEOR_RADIUS == 38
BEAM_SPEED == 900
SPAWN_DELAY_MS == 450
RETRIES == 200
QUOTIENT_MAX == 12
MARGIN == 70
SHIP_MIN_X == 40
TOP_MARGIN == 40
BOTTOM_MARGIN == 60
CORRECT_PARTICLES == 30
WRONG_PARTICLES == 12

ship_y == HEIGHT - 80

OFFSETS == <<-3, -2, -1, 1, 2, 3, 4>>

None == <<>>

----------------------------------------------------------------------------
(* Bounds of the model *)

\* a frame is disabled when it would raise total_attempts - correct_count above this
MaxMisses == 1
\* most USEREVENT+1 events waiting in the event queue
MaxTimerEvents == 1
\* the same while single frames are followed: the loop may stall for two periods
MaxStallEvents == 2

\* frame times dt, in milliseconds
DtSample == {500}
\* pointer x of MOUSEMOTION events
MouseXSample == {-500, 165, 10000}
\* positions of MOUSEBUTTONDOWN events
ClickSample == {<<300, 350>>, <<500, 350>>, <<700, 350>>, <<10, 10>>}
\* lifetimes of explosion particles, in milliseconds (random.uniform(0.5, 1.0))
LifeSample == {500}

----------------------------------------------------------------------------
(* Utilities *)

Min(a, b) == IF a <= b THEN a ELSE b
Max(a, b) == IF a >= b THEN a ELSE b

\* clamp without its upper limit
clamp_lower_only(v, a, b) == Max(a, v)

clamp(v, a, b) == Max(a, Min(b, v))

\* random.randint(lo, hi) on the raw draw u
RandInt(lo, hi, u) == lo + (u % (hi - lo + 1))

\* random.choice(list) on the raw draw u
RandChoice(list, u) == list[1 + (u % Len(list))]

DIGITS == <<"0", "1", "2", "3", "4", "5", "6", "7", "8", "9">>

\* str(n) as the sequence of its characters
RECURSIVE StrNat(_)
StrNat(n) ==
    IF n < 10 THEN <<DIGITS[n + 1]>>
    ELSE Append(StrNat(n \div 10), DIGITS[(n % 10) + 1])

Str(n) == IF n < 0 THEN <<"-">> \o StrNat(-n) ELSE StrNat(n)

\* int(text) of a sequence of characters
DigitValue(c) == CHOOSE d \in 0..9 : DIGITS[d + 1] = c

RECURSIVE IntDigits(_, _)
IntDigits(s, acc) ==
    IF s = <<>> THEN acc ELSE IntDigits(Tail(s), 10 * acc + DigitValue(Head(s)))

IntOf(s) == IF Head(s) = "-" THEN -IntDigits(Tail(s), 0) ELSE IntDigits(s, 0)

\* distance covered in dt milliseconds at speed px/sec
Travel(speed, dt) == (speed * dt) \div 1000

\* pygame.Rect as [left, top, w, h]
Rect(left, top, w, h) == [left |-> left, top |-> top, w |-> w, h |-> h]

colliderect(a, b) ==
    /\ a.left < b.left + b.w
    /\ b.left < a.left + a.w
    /\ a.top < b.top + b.h
    /\ b.top < a.top + a.h

collidepoint(r, pos) ==
    /\ r.left <= pos[1] /\ pos[1] < r.left + r.w
    /\ r.top <= pos[2] /\ pos[2] < r.top + r.h

----------------------------------------------------------------------------
(* Meteor *)

Meteor(x, y, text, speed) == [x |-> x, y |-> y, text |-> Str(text), speed |-> speed]

\* Meteor.rect: the sprite's rectangle centred on (x, y)
MeteorRect(m) ==
    Rect(m.x - METEOR_RADIUS, m.y - METEOR_RADIUS, 2 * METEOR_RADIUS, 2 * METEOR_RADIUS)

MeteorUpdate(m, dt) == [m EXCEPT !.y = @ + Travel(m.speed, dt)]

----------------------------------------------------------------------------
(* QuestionGenerator *)

Range(lo, hi) == [i \in 1..(hi - lo) |-> lo + i - 1]

set_difficulty(d) ==
    IF d = 0 THEN [difficulty |-> d, divisors |-> Range(1, 6), max_dividend |-> 20]
    ELSE IF d = 1 THEN [difficulty |-> d, divisors |-> Range(6, 10), max_dividend |-> 60]
    ELSE [difficulty |-> d, divisors |-> Range(1, 10), max_dividend |-> 81]

\* the test of the retry loop without its upper bound
Accepts_unbounded(g, dividend) == 1 <= dividend

\* the test of the retry loop
Accepts(g, dividend) == 1 <= dividend /\ dividend <= g.max_dividend

\* the fallback keeping the quotient of the last rejected sample
Fallback_last_sample(divisor) == <<divisor * QUOTIENT_MAX, divisor, QUOTIENT_MAX>>

Fallback(divisor) == <<divisor * 1, divisor, 1>>

\* the retry loop from iteration i on; qt is the stream of raw draws for
\* random.randint(1, 12): qt.pre first, then qt.fill for ever
QuotientDraw(qt, i) == IF i <= Len(qt.pre) THEN qt.pre[i] ELSE qt.fill

RECURSIVE RetryLoop(_, _, _, _)
RetryLoop(g, divisor, qt, i) ==
    IF i > RETRIES THEN Fallback(divisor)
    ELSE LET quotient == RandInt(1, QUOTIENT_MAX, QuotientDraw(qt, i))
             dividend == divisor * quotient
         IN  IF Accepts(g, dividend) THEN <<dividend, divisor, quotient>>
             ELSE RetryLoop(g, divisor, qt, i + 1)

next_question(g, du, qt) == RetryLoop(g, RandChoice(g.divisors, du), qt, 1)

----------------------------------------------------------------------------
(* Game.make_new_question *)

\* one candidate of the distractor loop: ou draws the offset, ru the replacement
Candidate(quotient, ou, ru) ==
    LET candidate == quotient + RandChoice(OFFSETS, ou)
    IN  IF candidate < 1 THEN RandInt(1, Max(3, quotient + 3), ru) ELSE candidate

Elems(s) == {s[i] : i \in DOMAIN s}

\* the distractor loop appending without the membership test
AddCandidate_unchecked(answers, candidate) == Append(answers, candidate)

AddCandidate(answers, candidate) ==
    IF candidate \notin Elems(answers) THEN Append(answers, candidate) ELSE answers

\* the while loop from draw i of the stream ct on; a stream that ends before
\* four answers are collected leaves the list short
RECURSIVE AnswersLoop(_, _, _, _)
AnswersLoop(answers, quotient, ct, i) ==
    IF Len(answers) >= 4 \/ i > Len(ct) THEN answers
    ELSE AnswersLoop(AddCandidate(answers, Candidate(quotient, ct[i].o, ct[i].r)),
                     quotient, ct, i + 1)

Swap(x, a, b) == [x EXCEPT ![a] = x[b], ![b] = x[a]]

\* random.shuffle: for i in reversed(range(1, len(x))): j = randbelow(i + 1); swap
\* (i is the 0-based index; js[k] is the raw draw of step k)
RECURSIVE ShuffleFrom(_, _, _, _)
ShuffleFrom(x, i, js, k) ==
    IF i < 1 THEN x
    ELSE ShuffleFrom(Swap(x, i + 1, (js[k] % (i + 1)) + 1), i - 1, js, k + 1)

Shuffle(x, js) == ShuffleFrom(x, Len(x) - 1, js, 1)

lane_w == (WIDTH - MARGIN * 2) \div 4

\* the meteor of lane i (0-based) for answer a
PlaceMeteor(i, a, jitter, yu, speed) ==
    Meteor(MARGIN + (lane_w \div 2) + i * lane_w + jitter, RandInt(-200, -60, yu), a, speed)

PlaceMeteors(answers, rnd) ==
    [k \in DOMAIN answers |->
        PlaceMeteor(k - 1, answers[k], rnd.jit[k], rnd.yu[k], rnd.sp[k])]

\* rnd holds the raw draws of one call: du (divisor), qt (quotients), ct
\* (candidates), js (shuffle), jit, yu, sp (per meteor)
Answers(question, rnd) == AnswersLoop(<<question[3]>>, question[3], rnd.ct, 1)

make_new_question(g, rnd) ==
    LET question == next_question(g, rnd.du, rnd.qt)
        answers == Shuffle(Answers(question, rnd), rnd.js)
    IN  [current_question |-> question, meteors |-> PlaceMeteors(answers, rnd)]

\* the draws the game is explored with
GameTapes ==
    { [du |-> 4, qt |-> [pre |-> <<11>>, fill |-> 3],
       ct |-> <<[o |-> 3, r |-> 0], [o |-> 3, r |-> 0], [o |-> 0, r |-> 0], [o |-> 4, r |-> 0]>>,
       js |-> js, jit |-> <<0, 0, 0, 0>>, yu |-> <<0, 140, 140, 140>>,
       sp |-> <<140, 140, 140, 140>>] : js \in {<<3, 2, 1>>, <<0, 2, 1>>} }

\* the draws single frames are explored with: the meteor of the first lane starts
\* highest and falls slowest, the other three start lowest and fall fastest
FrameTapes ==
    { [du |-> 4, qt |-> [pre |-> <<11>>, fill |-> 3],
       ct |-> <<[o |-> 3, r |-> 0], [o |-> 3, r |-> 0], [o |-> 0, r |-> 0], [o |-> 4, r |-> 0]>>,
       js |-> js, jit |-> <<0, 0, 0, 0>>, yu |-> <<0, 140, 140, 140>>,
       sp |-> <<60, 140, 140, 140>>] : js \in {<<3, 2, 1>>, <<0, 2, 1>>} }

\* make_new_question tabulated once over the three generators and these draws
QuestionTable ==
    [g \in {set_difficulty(d) : d \in 0..2} |->
        [rnd \in GameTapes \cup FrameTapes |-> make_new_question(g, rnd)]]

----------------------------------------------------------------------------
(* Game *)

\* draw_buttons: the list stored in Game._buttons for a screen
MenuButtonRect(i) == Rect(WIDTH \div 2 - 220 + i * 220, 320, 200, 48)

draw_buttons(st) ==
    IF st = "menu" THEN
        [k \in 1..3 |-> [rect |-> MenuButtonRect(k - 1), tag |-> <<"start", k - 1>>]]
    ELSE IF st = "level_clear" THEN
        << [rect |-> Rect(WIDTH \div 2 - 200, HEIGHT \div 2 + 20, 160, 50), tag |-> <<"next", None>>],
           [rect |-> Rect(WIDTH \div 2 - 20, HEIGHT \div 2 + 20, 160, 50), tag |-> <<"retry", None>>],
           [rect |-> Rect(WIDTH \div 2 + 160, HEIGHT \div 2 + 20, 160, 50), tag |-> <<"menu", None>>] >>
    ELSE <<>>

\* Game._buttons when a click is handled in level_clear: draw stores the list of
\* the screen it draws, every pass of the loop draws after its update, and only
\* update enters level_clear, so the list read there is the level_clear one
StoredButtons == draw_buttons("level_clear")

\* the first of the indices a loop's test holds at, 0 when there is none
FirstIndex(hits) ==
    IF hits = {} THEN 0 ELSE CHOOSE i \in hits : \A j \in hits : i <= j

\* list.remove(m): drops the first element equal to m
RemoveFirst(seq, m) ==
    LET i == FirstIndex({k \in DOMAIN seq : seq[k] = m})
    IN  IF i = 0 THEN seq
        ELSE [k \in 1..(Len(seq) - 1) |-> IF k < i THEN seq[k] ELSE seq[k + 1]]

\* Game.fire_beam
fire_beam(sx) == <<sx, ship_y - 34>>

BeamRect(b) == Rect(b[1] - 3, b[2] - 6, 6, 12)

\* ExplosionParticle bursts: n particles of age 0; the particles of one burst
\* share the drawn lifetime
Burst(n, life) == [age |-> 0, life |-> life, n |-> n]

ParticlesUpdate(ps, dt) ==
    LET aged == [k \in DOMAIN ps |-> [ps[k] EXCEPT !.age = @ + dt]]
        Alive(p) == p.age < p.life
    IN  SelectSeq(aged, Alive)

\* on_meteor_hit counting every hit as correct
on_meteor_hit_any_label(g, meteor, life) ==
    [g EXCEPT
        !.total_attempts = @ + 1,
        !.correct_count = @ + 1,
        !.particles = Append(@, Burst(CORRECT_PARTICLES, life)),
        !.meteors = <<>>,
        !.timer_ms = SPAWN_DELAY_MS,
        !.outcome = IF IntOf(meteor.text) = g.current_question[3]
                    THEN "hit_correct" ELSE "hit_wrong"]

\* on_meteor_hit counting the attempt only when the answer is wrong
on_meteor_hit_attempt_on_miss(g, meteor, life) ==
    LET correct == (IntOf(meteor.text) = g.current_question[3])
    IN  [g EXCEPT
            !.total_attempts = IF correct THEN @ ELSE @ + 1,
            !.correct_count = IF correct THEN @ + 1 ELSE @,
            !.particles = Append(@, Burst(IF correct THEN CORRECT_PARTICLES
                                                     ELSE WRONG_PARTICLES, life)),
            !.meteors = <<>>,
            !.timer_ms = SPAWN_DELAY_MS,
            !.outcome = IF correct THEN "hit_correct" ELSE "hit_wrong"]

\* Game.on_meteor_hit on the game fields g
on_meteor_hit(g, meteor, life) ==
    LET quotient == g.current_question[3]
        hit_value == IntOf(meteor.text)
        correct == (hit_value = quotient)
    IN  [g EXCEPT
            !.total_attempts = @ + 1,
            !.correct_count = IF correct THEN @ + 1 ELSE @,
            !.particles = Append(@, Burst(IF correct THEN CORRECT_PARTICLES
                                                     ELSE WRONG_PARTICLES, life)),
            !.meteors = <<>>,
            !.timer_ms = SPAWN_DELAY_MS,
            !.outcome = IF correct THEN "hit_correct" ELSE "hit_wrong"]

\* the collision block of update: first meteor (in list order) the beam overlaps
HitIndex(g) ==
    IF g.beam = None THEN 0
    ELSE FirstIndex({i \in DOMAIN g.meteors :
                        colliderect(MeteorRect(g.meteors[i]), BeamRect(g.beam))})

\* the collision block leaving the beam in flight after a hit
Collide_keep_beam(g, life) ==
    IF g.beam = None THEN g
    ELSE IF HitIndex(g) # 0
         THEN on_meteor_hit(g, g.meteors[HitIndex(g)], life)
         ELSE IF g.beam[2] < -TOP_MARGIN THEN [g EXCEPT !.beam = None] ELSE g

Collide(g, life) ==
    IF g.beam = None THEN g
    ELSE IF HitIndex(g) # 0
         THEN [on_meteor_hit(g, g.meteors[HitIndex(g)], life) EXCEPT !.beam = None]
         ELSE IF g.beam[2] < -TOP_MARGIN THEN [g EXCEPT !.beam = None] ELSE g

\* the off-screen sweep of update: the loop over the snapshot snap from index i
RECURSIVE SweepLoop(_, _, _, _)
SweepLoop(g, snap, i, rnd) ==
    IF i > Len(snap) THEN g
    ELSE IF snap[i].y > HEIGHT + BOTTOM_MARGIN
         THEN LET left == RemoveFirst(g.meteors, snap[i])
                  g1 == [g EXCEPT !.meteors = left, !.outcome = "sweep"]
                  q == QuestionTable[g.qgen][rnd]
                  g2 == IF left = <<>>
                        THEN [g1 EXCEPT !.total_attempts = @ + 1,
                                        !.current_question = q.current_question,
                                        !.meteors = q.meteors,
                                        !.outcome = "timeout"]
                        ELSE g1
              IN  SweepLoop(g2, snap, i + 1, rnd)
         ELSE SweepLoop(g, snap, i + 1, rnd)

\* the sweep spawning the next question without counting the failed attempt
Sweep_uncounted(g, rnd) ==
    LET r == SweepLoop(g, g.meteors, 1, rnd)
    IN  IF r.outcome = "timeout" THEN [r EXCEPT !.total_attempts = g.total_attempts] ELSE r

Sweep(g, rnd) == SweepLoop(g, g.meteors, 1, rnd)

\* the level-clear test with > for >=
LevelClear_strict(g) ==
    IF g.correct_count > TARGET_CORRECT THEN [g EXCEPT !.state = "level_clear"] ELSE g

\* the level-clear test one correct answer early
LevelClear_early(g) ==
    IF g.correct_count >= TARGET_CORRECT - 1 THEN [g EXCEPT !.state = "level_clear"] ELSE g

LevelClear(g) ==
    IF g.correct_count >= TARGET_CORRECT THEN [g EXCEPT !.state = "level_clear"] ELSE g

MoveBeam(g, dt) ==
    IF g.beam = None THEN g ELSE [g EXCEPT !.beam[2] = @ - Travel(BEAM_SPEED, dt)]

MoveMeteors(g, dt) ==
    [g EXCEPT !.meteors = [k \in DOMAIN g.meteors |-> MeteorUpdate(g.meteors[k], dt)]]

\* the fields of the game an update reads or writes
Fields ==
    [state |-> state, qgen |-> qgen, correct_count |-> correct_count,
     total_attempts |-> total_attempts, current_question |-> current_question,
     meteors |-> meteors, beam |-> beam, particles |-> particles,
     timer_ms |-> timer_ms, outcome |-> IF state = "playing" THEN "none" ELSE "idle"]

\* update without its test of the state: the playing block runs on every screen
update_unguarded(g, dt, life, rnd) ==
    LET g0 == [g EXCEPT !.particles = ParticlesUpdate(@, dt)]
    IN  LevelClear(Sweep(Collide(MoveMeteors(MoveBeam(g0, dt), dt), life), rnd))

\* Game.update(dt) on the game fields g
update(g, dt, life, rnd) ==
    LET g0 == [g EXCEPT !.particles = ParticlesUpdate(@, dt)]
    IN  IF g0.state = "playing"
        THEN LevelClear(Sweep(Collide(MoveMeteors(MoveBeam(g0, dt), dt), life), rnd))
        ELSE g0

----------------------------------------------------------------------------
(* Actions of the game: Game.__init__, the handlers of the main loop, one frame *)

genIdle == gpc = "idle" /\ g_divisor = 0 /\ g_tries = 0 /\ g_answers = <<>>

\* Game.make_new_question as a step of an action: g is the generator in force
MakeNewQuestion(g, rnd) ==
    LET q == QuestionTable[g][rnd]
    IN  /\ current_question' = q.current_question
        /\ meteors' = q.meteors

\* reset_play leaving the score as it is
reset_play_keep_score(g, rnd) ==
    /\ UNCHANGED correct_count
    /\ total_attempts' = 0
    /\ ship_x' = WIDTH \div 2
    /\ beam' = None
    /\ MakeNewQuestion(g, rnd)

\* Game.reset_play
reset_play(g, rnd) ==
    /\ correct_count' = 0
    /\ total_attempts' = 0
    /\ ship_x' = WIDTH \div 2
    /\ beam' = None
    /\ MakeNewQuestion(g, rnd)

\* Game() at module level
Init ==
    /\ state = "menu"
    /\ difficulty = 0
    /\ qgen = set_difficulty(0)
    /\ correct_count = 0
    /\ total_attempts = 0
    /\ ship_x = WIDTH \div 2
    /\ beam = None
    /\ \E rnd \in GameTapes :
          /\ current_question = QuestionTable[set_difficulty(0)][rnd].current_question
          /\ meteors = QuestionTable[set_difficulty(0)][rnd].meteors
    /\ particles = <<>>
    /\ timer_ms = 0
    /\ timer_events = 0
    /\ last = "init"
    /\ genIdle

\* pygame.MOUSEMOTION with pointer x = mx
MouseMotion(mx) ==
    /\ ship_x' = IF state = "playing" THEN clamp(mx, SHIP_MIN_X, WIDTH - SHIP_MIN_X)
                 ELSE ship_x
    /\ UNCHANGED <<state, difficulty, qgen, correct_count, total_attempts,
                   current_question, meteors, beam, particles,
                   timer_ms, timer_events, last, genVars>>

\* the pointer positions tried in a state: outside playing the position is not read
MouseXIn(st) == IF st = "playing" THEN MouseXSample ELSE {0}

\* handle_click in the menu: the first difficulty button under pos, 0..2, or -1
MenuButtonAt(pos) ==
    IF \E i \in 0..2 : collidepoint(MenuButtonRect(i), pos)
    THEN CHOOSE i \in 0..2 : /\ collidepoint(MenuButtonRect(i), pos)
                             /\ \A j \in 0..(i - 1) : ~collidepoint(MenuButtonRect(j), pos)
    ELSE -1

\* handle_click in level_clear: the action of the first stored button under pos
ButtonActionAt(btns, pos) ==
    LET i == FirstIndex({k \in DOMAIN btns : collidepoint(btns[k].rect, pos)})
    IN  IF i = 0 THEN "none" ELSE btns[i].tag[1]

\* 'next' without the cap at the top tier
NextDifficulty_uncapped(d) == d + 1

\* the difficulty after 'next'
NextDifficulty(d) == IF d < 2 THEN d + 1 ELSE d

\* 'next' raising the difficulty without telling the generator
NextQgen_stale(d, g) == g

\* the generator after 'next': set_difficulty is called only below the top tier
NextQgen(d, g) == IF d < 2 THEN set_difficulty(d + 1) ELSE g

\* handle_click in the menu, the draws of reset_play taken from tapes
ClickMenuWith(pos, tapes) ==
    /\ state = "menu"
    /\ IF MenuButtonAt(pos) >= 0
       THEN /\ difficulty' = MenuButtonAt(pos)
            /\ qgen' = set_difficulty(MenuButtonAt(pos))
            /\ \E rnd \in tapes : reset_play(qgen', rnd)
            /\ state' = "playing"
            /\ last' = "start"
       ELSE UNCHANGED <<state, difficulty, qgen, correct_count, total_attempts,
                        current_question, meteors, ship_x, beam, last>>

ClickMenu(pos) == ClickMenuWith(pos, GameTapes)

ClickPlaying ==
    /\ state = "playing"
    /\ beam' = fire_beam(ship_x)
    /\ last' = "fire"
    /\ UNCHANGED <<state, difficulty, qgen, correct_count, total_attempts,
                   current_question, meteors, ship_x>>

ClickLevelClear(pos) ==
    /\ state = "level_clear"
    /\ LET action == ButtonActionAt(StoredButtons, pos)
       IN  IF action = "next"
           THEN /\ difficulty' = NextDifficulty(difficulty)
                /\ qgen' = NextQgen(difficulty, qgen)
                /\ \E rnd \in GameTapes : reset_play(qgen', rnd)
                /\ state' = "playing"
                /\ last' = IF difficulty < 2 THEN "next" ELSE "next_capped"
           ELSE IF action = "retry"
           THEN /\ qgen' = set_difficulty(difficulty)
                /\ \E rnd \in GameTapes : reset_play(qgen', rnd)
                /\ state' = "playing"
                /\ last' = "retry"
                /\ UNCHANGED difficulty
           ELSE IF action = "menu"
           THEN /\ state' = "menu"
                /\ last' = "menu"
                /\ UNCHANGED <<difficulty, qgen, correct_count, total_attempts,
                               current_question, meteors, ship_x, beam>>
           ELSE UNCHANGED <<state, difficulty, qgen, correct_count, total_attempts,
                            current_question, meteors, ship_x, beam, last>>

\* Game.handle_click
handle_click(pos) == ClickMenu(pos) \/ ClickPlaying \/ ClickLevelClear(pos)

\* the click positions tried in a state: while playing the position is not read
ClicksIn(st) == IF st = "playing" THEN {<<10, 10>>} ELSE ClickSample

\* pygame.MOUSEBUTTONDOWN, button 1, at pos
MouseButtonDown(pos) ==
    /\ handle_click(pos)
    /\ UNCHANGED <<particles, timer_ms, timer_events, genVars>>

\* pygame.KEYDOWN, K_ESCAPE while playing (in the other states, as on pygame.QUIT,
\* the loop ends and no handler runs any more: the behaviour stops there)
KeyEscape ==
    /\ state = "playing"
    /\ state' = "menu"
    /\ UNCHANGED <<difficulty, qgen, correct_count, total_attempts,
                   current_question, meteors, ship_x, beam, particles,
                   timer_ms, timer_events, last, genVars>>

\* the armed pygame timer posts one more USEREVENT+1 (it repeats until
\* disarmed), with at most n of them waiting in the queue
TimerFiresUpTo(n) ==
    /\ timer_ms > 0
    /\ timer_events < n
    /\ timer_events' = timer_events + 1
    /\ UNCHANGED <<state, difficulty, qgen, correct_count, total_attempts,
                   current_question, meteors, ship_x, beam, particles,
                   timer_ms, last, genVars>>

TimerFires == TimerFiresUpTo(MaxTimerEvents)

\* the main loop's handler of USEREVENT+1, the draws taken from tapes
TimerEventWith(tapes) ==
    /\ timer_events > 0
    /\ timer_events' = timer_events - 1
    /\ timer_ms' = 0
    /\ \E rnd \in tapes : MakeNewQuestion(qgen, rnd)
    /\ UNCHANGED <<state, difficulty, qgen, correct_count, total_attempts,
                   ship_x, beam, particles, last, genVars>>

TimerEvent == TimerEventWith(GameTapes)

\* the fields after update(dt)
FrameTo(g0) ==
    LET g == g0 IN
    /\ g.total_attempts - g.correct_count <= MaxMisses
    /\ state' = g.state
    /\ correct_count' = g.correct_count
    /\ total_attempts' = g.total_attempts
    /\ current_question' = g.current_question
    /\ meteors' = g.meteors
    /\ beam' = g.beam
    /\ particles' = g.particles
    /\ timer_ms' = g.timer_ms
    /\ last' = g.outcome

AnyTape == CHOOSE rnd \in GameTapes : TRUE

\* one pass of the main loop after its events: game.update(dt); game.draw only
\* reads the game and stores the button list (see StoredButtons)
Frame(dt) ==
    /\ \E life \in LifeSample :
          LET g == update(Fields, dt, life, AnyTape)
          IN  IF g.outcome = "timeout"
              THEN \E rnd \in GameTapes : FrameTo(update(Fields, dt, life, rnd))
              ELSE FrameTo(g)
    /\ UNCHANGED <<difficulty, qgen, ship_x, timer_events, genVars>>

Next ==
    \/ \E mx \in MouseXIn(state) : MouseMotion(mx)
    \/ \E pos \in ClicksIn(state) : MouseButtonDown(pos)
    \/ KeyEscape
    \/ TimerFires
    \/ TimerEvent
    \/ \E dt \in DtSample : Frame(dt)

Spec == Init /\ [][Next]_vars

----------------------------------------------------------------------------
(* make_new_question run step by step, one action per loop iteration, with     *)
(* every value the random module can return: the generator on its own          *)

\* per-meteor draws used when the step-wise run places the batch
GenPlacement == [jit |-> <<0, 0, 0, 0>>, yu |-> <<0, 140, 70, 1>>, sp |-> <<60, 140, 100, 61>>]

InitGen ==
    /\ state = "menu"
    /\ \E d \in 0..2 : difficulty = d /\ qgen = set_difficulty(d)
    /\ correct_count = 0
    /\ total_attempts = 0
    /\ ship_x = WIDTH \div 2
    /\ beam = None
    /\ current_question = None
    /\ meteors = <<>>
    /\ particles = <<>>
    /\ timer_ms = 0
    /\ timer_events = 0
    /\ last = "init"
    /\ gpc = "next_question"
    /\ g_divisor = 0
    /\ g_tries = 0
    /\ g_answers = <<>>

\* divisor = random.choice(self.divisors)
GenDivisor(du) ==
    /\ gpc = "next_question"
    /\ g_divisor' = RandChoice(qgen.divisors, du)
    /\ g_tries' = 0
    /\ gpc' = "retry"
    /\ UNCHANGED <<gameVars, last, qgen, current_question, meteors, g_answers>>

\* next_question returning question: make_new_question goes on with answers = [quotient]
GenReturn(question, how) ==
    /\ last' = how
    /\ current_question' = question
    /\ g_answers' = <<question[3]>>
    /\ g_divisor' = 0
    /\ g_tries' = 0
    /\ gpc' = "answers"

\* one iteration of the retry loop with the draw qu
GenRetry(qu) ==
    /\ gpc = "retry"
    /\ g_tries < RETRIES
    /\ LET quotient == RandInt(1, QUOTIENT_MAX, qu)
           dividend == g_divisor * quotient
       IN  IF Accepts(qgen, dividend)
           THEN GenReturn(<<dividend, g_divisor, quotient>>, "accepted")
           ELSE /\ g_tries' = g_tries + 1
                /\ UNCHANGED <<current_question, g_answers, g_divisor, gpc, last>>
    /\ UNCHANGED <<gameVars, qgen, meteors>>

\* the retry loop is exhausted
GenFallback ==
    /\ gpc = "retry"
    /\ g_tries >= RETRIES
    /\ GenReturn(Fallback(g_divisor), "fallback")
    /\ UNCHANGED <<gameVars, qgen, meteors>>

\* one iteration of the distractor loop with the draws ou, ru
GenCandidate(ou, ru) ==
    /\ gpc = "answers"
    /\ Len(g_answers) < 4
    /\ g_answers' = AddCandidate(g_answers, Candidate(current_question[3], ou, ru))
    /\ UNCHANGED <<gameVars, last, qgen, current_question, meteors, gpc, g_divisor, g_tries>>

\* random.shuffle(answers) with the draws js, then the meteors are placed
GenPlace(js) ==
    /\ gpc = "answers"
    /\ Len(g_answers) >= 4
    /\ meteors' = PlaceMeteors(Shuffle(g_answers, js), GenPlacement)
    /\ g_answers' = <<>>
    /\ gpc' = "done"
    /\ UNCHANGED <<gameVars, last, qgen, current_question, g_divisor, g_tries>>

ShuffleDraws == {<<a, b, c>> : a \in 0..3, b \in 0..2, c \in 0..1}

NextGen ==
    \/ \E du \in 0..8 : GenDivisor(du)
    \/ \E qu \in 0..(QUOTIENT_MAX - 1) : GenRetry(qu)
    \/ GenFallback
    \/ \E ou \in 0..(Len(OFFSETS) - 1), ru \in 0..(QUOTIENT_MAX + 2) : GenCandidate(ou, ru)
    \/ \E js \in ShuffleDraws : GenPlace(js)

SpecGen == InitGen /\ [][NextGen]_vars

----------------------------------------------------------------------------
(* Properties *)

\* the game fields after the beam and the meteors of an update(dt) have moved
Moved(dt) == MoveMeteors(MoveBeam(Fields, dt), dt)

\* a frame in which the beam overlaps a meteor while playing
HitFrame(dt) ==
    state = "playing" /\ beam # None /\ HitIndex(Moved(dt)) # 0 /\ Frame(dt)

HitMeteor(dt) == Moved(dt).meteors[HitIndex(Moved(dt))]

Labels(ms) == [k \in DOMAIN ms |-> IntOf(ms[k].text)]

\* ms is a batch as make_new_question leaves it for question q: four meteors
\* above the screen, one of them labelled with the quotient
FreshBatch(q, ms) ==
    /\ Len(q) = 3
    /\ Len(ms) = 4
    /\ \A k \in DOMAIN ms : ms[k].y <= -60 /\ ms[k].y >= -200
    /\ Cardinality({k \in DOMAIN ms : IntOf(ms[k].text) = q[3]}) = 1

\* C1: whenever the beam hits a meteor during playing, a label equal to the
\* active question's quotient raises correct_count and total_attempts by exactly
\* 1 each; any other label raises total_attempts by exactly 1 and leaves
\* correct_count unchanged.
C1_HitScoring ==
    [][\A dt \in DtSample :
          HitFrame(dt) =>
             IF IntOf(HitMeteor(dt).text) = current_question[3]
             THEN /\ correct_count' = correct_count + 1
                  /\ total_attempts' = total_attempts + 1
             ELSE /\ correct_count' = correct_count
                  /\ total_attempts' = total_attempts + 1]_vars

\* a wrong hit has just been resolved in a session that already has a correct one
C1_Witness ==
    /\ last = "hit_wrong"
    /\ correct_count >= 1
    /\ total_attempts = correct_count + 1

\* C2: correct_count reaching the target moves the state from playing to
\* level_clear in the same update call, and correct_count never exceeds the target.
C2_TargetReached ==
    /\ correct_count <= TARGET_CORRECT
    /\ [][/\ correct_count' <= TARGET_CORRECT
          /\ (state' = "playing" => correct_count' < TARGET_CORRECT)
          /\ (state = "playing" /\ correct_count < TARGET_CORRECT
                 /\ correct_count' >= TARGET_CORRECT) => state' = "level_clear"]_vars

\* the update call of the twentieth correct hit has ended in level_clear
C2_Witness ==
    state = "level_clear" /\ correct_count = TARGET_CORRECT /\ last = "hit_correct"

\* C3: a primary click while playing with a beam in flight leaves that beam's
\* position unchanged.
C3_ClickKeepsBeam ==
    [][(state = "playing" /\ beam # None /\ \E pos \in ClickSample : MouseButtonDown(pos))
          => beam' = beam]_vars

\* C4: once play has been left for the menu, the pending post-hit spawn timer
\* never fires: the USEREVENT+1 handler never replaces the question and the
\* meteors while the state is menu.
C4_NoSpawnInMenu == [][state = "menu" => ~TimerEvent]_vars

\* C5: after a hit the meteor set stays empty until the scheduled delay has
\* elapsed (the timer is armed and has posted no event yet), and the handler of
\* the spawn event leaves a fresh question with a batch of exactly 4 meteors.
C5_EmptyUntilSpawn ==
    [][/\ (timer_ms' > 0 /\ timer_events' = 0) => meteors' = <<>>
       /\ TimerEvent => FreshBatch(current_question', meteors')]_vars

\* the meteors of an update(dt) that end below the bottom boundary
OffScreen(dt) ==
    {k \in DOMAIN meteors : Moved(dt).meteors[k].y > HEIGHT + BOTTOM_MARGIN}

\* a frame without a hit whose sweep removes at least one meteor
SweepFrame(dt) ==
    state = "playing" /\ OffScreen(dt) # {} /\ HitIndex(Moved(dt)) = 0 /\ Frame(dt)

C7_ResetOnEntry ==
    [][(state # "playing" /\ state' = "playing") =>
          /\ correct_count' = 0
          /\ total_attempts' = 0
          /\ beam' = None
          /\ FreshBatch(current_question', meteors')]_vars

\* play was abandoned by Escape with progress and has been entered again
C7_Witness ==
    /\ last = "start"
    /\ state = "playing"
    /\ correct_count = 0
    /\ total_attempts = 0
    /\ particles # <<>>

\* a click on the 'next' button of level_clear
NextClick ==
    /\ state = "level_clear"
    /\ \E pos \in ClickSample :
          ButtonActionAt(StoredButtons, pos) = "next" /\ MouseButtonDown(pos)

\* C8: 'next' in level_clear at difficulty d sets difficulty to min(d+1, 2) and
\* resets correct_count to 0 (from 2 it stays 2 and still resets); difficulty is
\* always in {0,1,2}.
C8_NextDifficulty ==
    /\ difficulty \in 0..2
    /\ [][/\ difficulty' \in 0..2
          /\ NextClick => /\ difficulty' = Min(difficulty + 1, 2)
                          /\ correct_count' = 0
                          /\ state' = "playing"]_vars

\* 'next' has just started a session at the top tier
C8_Witness ==
    last = "next" /\ state = "playing" /\ difficulty = 2 /\ correct_count = 0

TierDivisors(d) == IF d = 0 THEN 1..5 ELSE IF d = 1 THEN 6..9 ELSE 1..9
TierMaxDividend(d) == IF d = 0 THEN 20 ELSE IF d = 1 THEN 60 ELSE 81

ValidQuestion(d, q) ==
    /\ q[1] = q[2] * q[3]
    /\ q[2] \in TierDivisors(d)
    /\ 1 <= q[1] /\ q[1] <= TierMaxDividend(d)

\* C9: for every tier, every question next_question returns has
\* dividend = divisor * quotient, its divisor in the tier's set and
\* 1 <= dividend <= the tier's maximum, the fallback path included.
C9_QuestionValid ==
    current_question # None => ValidQuestion(qgen.difficulty, current_question)

\* next_question has returned through its fallback
C9_Witness == last = "fallback" /\ current_question # None /\ gpc = "answers"

\* C10: the four labels of a new meteor batch are pairwise distinct, all >= 1,
\* and exactly one of them equals the question's quotient.
C10_AnswersDistinct ==
    gpc = "done" =>
        /\ Len(meteors) = 4
        /\ \A i, j \in DOMAIN meteors : i # j => Labels(meteors)[i] # Labels(meteors)[j]
        /\ \A i \in DOMAIN meteors : Labels(meteors)[i] >= 1
        /\ Cardinality({i \in DOMAIN meteors : Labels(meteors)[i] = current_question[3]}) = 1

\* a batch for quotient 1, whose low candidates were replaced by random.randint
C10_Witness ==
    /\ gpc = "done"
    /\ current_question[3] = 1
    /\ {Labels(meteors)[i] : i \in DOMAIN meteors} = {1, 2, 3, 4}

\* C11: the ship x-position is within [40, WIDTH-40] in every reachable state,
\* for any pointer x (far negative or far beyond the window) and after any reset.
C11_ShipInRange == SHIP_MIN_X <= ship_x /\ ship_x <= WIDTH - SHIP_MIN_X

\* the pointer has been far beyond the right edge while playing
C11_Witness == state = "playing" /\ ship_x = WIDTH - SHIP_MIN_X

\* a click at a position inside one of the three difficulty buttons of the menu
MenuButtonClick ==
    \E pos \in ClickSample :
        /\ \E i \in 0..2 : collidepoint(MenuButtonRect(i), pos)
        /\ MouseButtonDown(pos)

\* a click at a position inside a level_clear button whose tag is in tags
LevelClearClick(tags) ==
    \E pos \in ClickSample :
        /\ \E k \in DOMAIN StoredButtons :
              /\ collidepoint(StoredButtons[k].rect, pos)
              /\ StoredButtons[k].tag[1] \in tags
        /\ MouseButtonDown(pos)

\* C12: the state changes only along menu->playing (difficulty click),
\* playing->level_clear (correct_count reaches the target, inside update),
\* level_clear->playing (retry/next click), level_clear->menu (menu click) and
\* playing->menu (Escape); no other event changes it, and level_clear is never
\* entered from the menu.
C12_Transitions ==
    [][state' # state =>
          \/ /\ state = "menu" /\ state' = "playing"
             /\ MenuButtonClick
          \/ /\ state = "playing" /\ state' = "level_clear"
             /\ correct_count' = TARGET_CORRECT
             /\ \E dt \in DtSample : Frame(dt)
          \/ /\ state = "level_clear" /\ state' = "playing"
             /\ LevelClearClick({"retry", "next"})
          \/ /\ state = "level_clear" /\ state' = "menu"
             /\ LevelClearClick({"menu"})
          \/ /\ state = "playing" /\ state' = "menu"
             /\ KeyEscape]_vars

\* the 'menu' button of level_clear has just been clicked
C12_Witness == state = "menu" /\ last = "menu" /\ correct_count = TARGET_CORRECT

----------------------------------------------------------------------------
(* Single frames: one play session followed frame by frame, with frame times   *)
(* and draws that bring a meteor under the beam above the top of the screen    *)
(* and while other meteors leave through the bottom                            *)

\* frame times dt, in milliseconds
FrameDt == {450, 700}

\* what a frame did, for the observer: a hit by a beam that is beyond the top
\* margin after its move, or a hit while another meteor is below the bottom
Observed(dt, outcome) ==
    IF outcome \in {"hit_correct", "hit_wrong"}
    THEN IF Moved(dt).beam[2] < -TOP_MARGIN THEN "hit_past_top"
         ELSE IF OffScreen(dt) # {} THEN "hit_at_exit"
         ELSE outcome
    ELSE outcome

\* Game() at module level
InitFrame ==
    /\ state = "menu"
    /\ difficulty = 0
    /\ qgen = set_difficulty(0)
    /\ correct_count = 0
    /\ total_attempts = 0
    /\ ship_x = WIDTH \div 2
    /\ beam = None
    /\ \E rnd \in FrameTapes :
          /\ current_question = QuestionTable[set_difficulty(0)][rnd].current_question
          /\ meteors = QuestionTable[set_difficulty(0)][rnd].meteors
    /\ particles = <<>>
    /\ timer_ms = 0
    /\ timer_events = 0
    /\ last = "init"
    /\ genIdle

\* a click on the first difficulty button of the menu
StartFrame ==
    /\ ClickMenuWith(<<300, 350>>, FrameTapes)
    /\ UNCHANGED <<particles, timer_ms, timer_events, genVars>>

\* a click while playing
FireFrame ==
    /\ ClickPlaying
    /\ UNCHANGED <<particles, timer_ms, timer_events, genVars>>

\* the pointer moves over the first lane
AimFrame == state = "playing" /\ MouseMotion(165)

\* one pass of the main loop after its events: game.update(dt)
FrameObserve(dt) ==
    /\ \E life \in LifeSample, rnd \in FrameTapes :
          LET g == update(Fields, dt, life, rnd)
          IN  FrameTo([g EXCEPT !.outcome = Observed(dt, g.outcome)])
    /\ UNCHANGED <<difficulty, qgen, ship_x, timer_events, genVars>>

NextFrame ==
    \/ StartFrame
    \/ FireFrame
    \/ AimFrame
    \/ TimerFiresUpTo(MaxStallEvents)
    \/ TimerEventWith(FrameTapes)
    \/ \E dt \in FrameDt : FrameObserve(dt)

SpecFrame == InitFrame /\ [][NextFrame]_vars

\* C13: within a single update call the beam resolves at most one meteor: on
\* the first overlap the hit is resolved and the beam destroyed, so
\* total_attempts rises by at most 1 per update call (a hit and a timeout never
\* both count in the same frame) and after a hit the beam is absent.
C13_OneHitPerUpdate ==
    [][\A dt \in FrameDt :
          (state = "playing" /\ FrameObserve(dt)) =>
             /\ total_attempts' <= total_attempts + 1
             /\ (beam # None /\ HitIndex(Moved(dt)) # 0) =>
                    /\ beam' = None
                    /\ total_attempts' = total_attempts + 1]_vars

\* a hit has just been resolved in a frame in which another meteor of the batch
\* had fallen below the bottom boundary
C13_Witness == last = "hit_at_exit" /\ beam = None /\ total_attempts >= 1

\* C14: the beam is moved and, if it has now passed the top margin, destroyed
\* before collision resolution runs: a beam that has left the top of the screen
\* in this frame never resolves a hit against a meteor still above the screen.
C14_TopBeforeCollision ==
    [][\A dt \in FrameDt :
          (/\ state = "playing"
           /\ beam # None
           /\ Moved(dt).beam[2] < -TOP_MARGIN
           /\ FrameObserve(dt)) =>
             /\ beam' = None
             /\ correct_count' = correct_count
             /\ timer_ms' = timer_ms
             /\ ~(meteors # <<>> /\ meteors' = <<>>)]_vars

\* C15: update(dt) called while the state is menu or level_clear leaves state,
\* difficulty, correct_count, total_attempts, the current question, the meteor
\* set, the beam and ship_x unchanged; only particles advance.
C15_IdleUpdate ==
    [][\A dt \in DtSample :
          (state # "playing" /\ Frame(dt)) =>
             /\ UNCHANGED <<state, difficulty, correct_count, total_attempts,
                            current_question, meteors, beam, ship_x>>
             /\ particles' = ParticlesUpdate(particles, dt)]_vars

\* a frame has passed in level_clear with meteors spawned by the timer on
\* screen: the particles of the last hit have aged out, the meteors are where
\* make_new_question put them
C15_Witness ==
    /\ state = "level_clear"
    /\ last = "idle"
    /\ particles = <<>>
    /\ Len(meteors) = 4
    /\ \A k \in DOMAIN meteors : meteors[k].y <= -60

\* next_question returns in this step
GenReturns == gpc = "retry" /\ gpc' = "answers"

\* C16: next_question never fails: it makes at most 200 quotient samples,
\* returns the first sample whose dividend satisfies the tier bound, and after
\* 200 rejected samples returns the fallback (divisor, divisor, 1) instead of
\* raising; quotient 1 is acceptable in every tier, so the fallback is valid.
C16_NeverFails ==
    /\ [](gpc = "retry" => /\ g_tries <= RETRIES
                           /\ g_divisor \in TierDivisors(qgen.difficulty)
                           /\ g_divisor * 1 <= TierMaxDividend(qgen.difficulty)
                           /\ ENABLED (GenFallback \/ \E qu \in 0..(QUOTIENT_MAX - 1) : GenRetry(qu)))
    /\ [][/\ \A qu \in 0..(QUOTIENT_MAX - 1) :
             (/\ GenRetry(qu)
              /\ g_divisor * (qu + 1) <= TierMaxDividend(qgen.difficulty)) =>
                 /\ GenReturns
                 /\ current_question' = <<g_divisor * (qu + 1), g_divisor, qu + 1>>
          /\ GenReturns =>
                \/ /\ last' = "accepted"
                   /\ g_tries < RETRIES
                   /\ ValidQuestion(qgen.difficulty, current_question')
                   /\ current_question'[2] = g_divisor
                \/ /\ last' = "fallback"
                   /\ g_tries = RETRIES
                   /\ current_question' = <<g_divisor, g_divisor, 1>>
                   /\ ValidQuestion(qgen.difficulty, current_question')]_vars

\* a batch has been completed for a question that came from the fallback
C16_Witness ==
    /\ last = "fallback"
    /\ gpc = "done"
    /\ current_question[3] = 1
    /\ current_question[1] = current_question[2]

\* C17: at most one deferred spawn timer is pending at any time, and one hit
\* leads to at most one delayed make_new_question call: the handler of the
\* spawn event runs only while the batch cleared by the hit is still missing
\* (never a second time on the batch it has spawned), and leaves no timer armed.
C17_OneSpawnPerHit ==
    /\ [](timer_ms \in {0, SPAWN_DELAY_MS})
    /\ [][TimerEventWith(FrameTapes) =>
             /\ meteors = <<>>
             /\ timer_ms' = 0]_vars

\* C18: the question generator's tier always equals the game's difficulty, with
\* the matching divisor set and maximum dividend, in every reachable state,
\* also after 'next' at the capped tier where set_difficulty is not called.
C18_GeneratorTier ==
    /\ qgen.difficulty = difficulty
    /\ Elems(qgen.divisors) = TierDivisors(difficulty)
    /\ qgen.max_dividend = TierMaxDividend(difficulty)

\* 'next' has just been clicked at the top tier
C18_Witness ==
    /\ last = "next_capped"
    /\ state = "playing"
    /\ difficulty = 2
    /\ qgen.difficulty = 2

\* C19: whenever the state is level_clear, correct_count equals the target
\* exactly; whenever the state is playing at the end of an update call,
\* correct_count is below the target; no event in level_clear changes
\* correct_count.
C19_LevelClearCount ==
    /\ [](state = "level_clear" => correct_count = TARGET_CORRECT)
    /\ [][/\ ((\E dt \in DtSample : Frame(dt)) /\ state' = "playing")
                => correct_count' < TARGET_CORRECT
          /\ (state = "level_clear" /\ state' = "level_clear")
                => correct_count' = correct_count]_vars

\* the spawn event of the last hit has been handled in level_clear, in a session
\* with one failed attempt
C19_Witness ==
    /\ state = "level_clear"
    /\ correct_count = TARGET_CORRECT
    /\ total_attempts = TARGET_CORRECT + 1
    /\ timer_ms = 0
    /\ meteors # <<>>

\* C20: 0 <= correct_count <= total_attempts in every reachable state: both are
\* reset to 0 together, every hit raises total_attempts, a timeout raises only
\* total_attempts, and neither counter ever decreases except by a reset.
C20_CountsOrdered ==
    /\ [](0 <= correct_count /\ correct_count <= total_attempts)
    /\ [][/\ (correct_count' < correct_count \/ total_attempts' < total_attempts)
                => (correct_count' = 0 /\ total_attempts' = 0)
          /\ (correct_count' = 0 /\ correct_count > 0) => total_attempts' = 0
          /\ correct_count' > correct_count
                => /\ correct_count' = correct_count + 1
                   /\ total_attempts' = total_attempts + 1
          /\ total_attempts' > total_attempts
                => total_attempts' = total_attempts + 1]_vars

\* a timeout has just raised total_attempts alone in a session with correct hits
C20_Witness ==
    /\ last = "timeout"
    /\ correct_count >= 1
    /\ total_attempts = correct_count + 1

TypeOK ==
    /\ state \in {"menu", "playing", "level_clear"}
    /\ difficulty \in 0..2
    /\ Len(current_question) = 3

====
